---- MODULE Spec2Model ----
(***************************************************************************)
(* A state-machine model of rogue-bench: the RogueBox orchestrator         *)
(* (src/rogueinabox.py), the child process it drives, and the agent loops  *)
(* above it (src/baseagent.py, src/llm_agent.py).                          *)
(*                                                                         *)
(* The terminal screen is abstracted to what the code inspects of it: the  *)
(* status line (last row: absent, partially drawn, or complete with its    *)
(* dungeon level and optional command count) and the message line (first   *)
(* row: no prompt, a "--More--" pager prompt, a "call it" modal).          *)
(* Time is counted in poll intervals (one time.sleep(busy_wait_seconds)).  *)
(***************************************************************************)
EXTENDS Integers, Sequences, FiniteSets, TLC

\* ------------------------------------------------------------------ bounds
MaxSteps == 2       \* commands accounted per Run before the caller stops sending
MaxSpawns == 2      \* child processes spawned over the life of one RogueBox
MaxCount == 0       \* largest command count a status line shows
MaxLen == 2         \* longest command string a caller passes
MaxWait == 1        \* max_busy_wait_seconds, in poll intervals
MaxWorkers == 3     \* worker threads an LLMAgent starts over its life
MaxTimers == 5      \* act-timers a user interface arms in one session

\* program constants
AmuletLevel == 2    \* rogue_options.amulet_level, the milestone dungeon level

\* ----------------------------------------------------------------- screens
Msgs == {"none", "more", "call"}

\* get_empty_screen(): 24 rows of 80 blanks
get_empty_screen == [status |-> "none", lvl |-> 0, cc |-> -1, msg |-> "none"]

\* The screens a child of the given build can draw.  counter = the build
\* prints "Cmd: n" in its status line.
ChildScreens(counter) ==
    { [status |-> "none", lvl |-> 0, cc |-> -1, msg |-> "none"] }
    \cup { [status |-> "partial", lvl |-> 0, cc |-> -1, msg |-> "none"] }
    \cup { [status |-> "full", lvl |-> l, cc |-> c, msg |-> m] :
             l \in 1..AmuletLevel,
             c \in (IF counter THEN 0..MaxCount ELSE {-1}),
             m \in Msgs }

\* RogueParser.parse_screen(screen): the Frame of a screen.  A status line
\* that is absent or not completely drawn gives a Frame without status bar.
parse_screen(s) ==
    IF s.status = "full"
    THEN [sb |-> TRUE, lvl |-> s.lvl, cc |-> s.cc]
    ELSE [sb |-> FALSE, lvl |-> 0, cc |-> -1]

\* Frame.has_statusbar()
has_statusbar(f) == f.sb

\* frame.statusbar["command_count"] raises KeyError when the field is absent
HasCommandCount(f) == f.sb /\ f.cc >= 0

\* RogueParser.get_cmd_count(screen): -1 stands for the RuntimeError raised
\* when the status line does not (yet) show the count
get_cmd_count(s) == IF s.status = "full" /\ s.cc >= 0 THEN s.cc ELSE -1

\* RogueBox.game_over(screen): not ('Hp:' in screen[-1])
game_over(s) == s.status = "none"

\* RogueBox._need_to_dismiss()
need_to_dismiss(s) == s.msg \in {"call", "more"}

\* RogueBox._dismiss_message(): the key written for the message line: a space
\* for "ore--", an escape for "all it", nothing otherwise
DismissKey(s) ==
    IF s.msg = "more" THEN <<" ">>
    ELSE IF s.msg = "call" THEN <<"ESC">>
    ELSE <<>>

\* _dismiss_all_messages: whether the loop calls _dismiss_message under the
\* options o; the call is commented out, no option brings it back
KeySendsEnabled(o) == FALSE

\* _dismiss_all_messages: what one iteration of the loop writes to the child
DismissKeys(s, o) == IF KeySendsEnabled(o) THEN DismissKey(s) ELSE <<>>

\* ------------------------------------------------------------------- state
VARIABLES
    platform,              \* platform.system(): "Windows" or "Posix"
    build,                 \* TRUE iff the rogue build prints a command count
    options,               \* RogueBoxOptions: transform_descent_action,
                           \*   refresh_after_commands, move_rogue
    procs,                 \* status of every child spawned so far, in order
    pid_ok,                \* POSIX: self.pid (getpid() + 1) is the child's pid
    wedged,                \* the current child has stopped reacting for good
    started,               \* _start() has run: per-Run attributes exist
    screen,                \* self.screen
    has_cmd_count,         \* self.has_cmd_count
    step_count,            \* self.step_count
    frame_history,         \* self.frame_history
    reached_amulet_level,  \* self.reached_amulet_level
    reward,                \* self.reward
    state,                 \* self.state
    pc,                    \* position of the call in progress
    todo,                  \* characters still to stream to send_command
    ret,                   \* last_result / the value the call returns
    wrote,                 \* bytes written to the child for the current character
    t,                     \* poll intervals elapsed since t0 of _cmd_busy_wait
                           \*   (the fixed-delay synchronization keeps no clock)
    td,                    \* poll intervals elapsed since t0 of _dismiss_all_messages
    expected_cmd_count,    \* _cmd_busy_wait: expected_cmd_count
    new_cmd_count,         \* _cmd_busy_wait: new_cmd_count
    entered_loop,          \* send_command: entered_loop
    warned,                \* RogueLoopWarnings issued for the current character
    probe,                 \* a call applied as a whole: its arguments and outcome
    apc,                   \* LLMAgent: position of the main thread
    llm_thread,            \* LLMAgent.llm_thread: 0 (None) or the worker's number
    workers,               \* every worker thread: its progress and the Run it read
    action_queue,          \* LLMAgent.action_queue (maxsize 1)
    chosen_action          \* act(): chosen_action

envVars == <<platform, build, options, pid_ok, wedged>>
boxVars == <<started, screen, has_cmd_count, step_count, frame_history,
             reached_amulet_level, reward, state>>
waitVars == <<t, td, expected_cmd_count, new_cmd_count, entered_loop, warned>>
callVars == <<pc, todo, ret, wrote>>
agentVars == <<apc, llm_thread, workers, action_queue, chosen_action>>
auxVars == <<probe, agentVars>>
vars == <<envVars, procs, boxVars, waitVars, callVars, auxVars>>

\* ----------------------------------------------------------------- helpers
Last(s) == s[Len(s)]

Min(a, b) == IF a < b THEN a ELSE b

\* the value None, and the tuple (reward, state, won, lost)
None == [kind |-> "none", reward |-> 0, state |-> 0, won |-> FALSE, lost |-> FALSE]
Result(r, s, w, l) == [kind |-> "value", reward |-> r, state |-> s, won |-> w, lost |-> l]
Raised == [kind |-> "raise", reward |-> 0, state |-> 0, won |-> FALSE, lost |-> FALSE]

\* the keys of a command string: the descent key stands for every game key
\* (it is an ordinary key unless the descent transform applies), the blank
\* for whitespace
Chars == {">", " "}
\* a variant of IsSpace that takes no character for whitespace
IsSpaceNever(c) == FALSE

\* str.strip(): the characters it takes for whitespace
IsSpace(c) == c = " "

\* str.strip(): drop leading and trailing whitespace
RECURSIVE LStrip(_)
LStrip(s) == IF s # <<>> /\ IsSpace(Head(s)) THEN LStrip(Tail(s)) ELSE s
RECURSIVE RStrip(_)
RStrip(s) == IF s # <<>> /\ IsSpace(Last(s)) THEN RStrip(SubSeq(s, 1, Len(s) - 1)) ELSE s
Strip(s) == RStrip(LStrip(s))

\* the command strings a caller passes (None is treated as "" by send_command)
Commands == UNION { [1..n -> Chars] : n \in 0..MaxLen }

\* the rewards and states the external generators produce: 1 stands for the
\* value the reward generator computes for a step (0 is the reward of _start
\* and of an empty command); the state is a function of the frame history
Rewards == {1}
compute_state(fh) == Len(fh)

\* -------------------------------------------------------------- the child
Alive == procs # <<>> /\ Last(procs) = "alive"

SetLast(s, v) == [s EXCEPT ![Len(s)] = v]

\* RogueBox.is_running(): the answer
is_running ==
    IF platform = "Windows"
    THEN Alive
    ELSE started /\ pid_ok /\ Alive

\* RogueBox.is_running(): os.waitpid(pid, WNOHANG) reaps a dead child
ProcsAfterIsRunning ==
    IF platform = "Posix" /\ started /\ pid_ok /\ procs # <<>> /\ Last(procs) = "zombie"
    THEN SetLast(procs, "reaped")
    ELSE procs

\* RogueBox.stop(): terminate the pty process (Windows), or SIGKILL to
\* self.pid (POSIX), when is_running() says the child is alive
ProcsAfterStop ==
    IF is_running
    THEN SetLast(procs, IF platform = "Windows" THEN "dead" ELSE "zombie")
    ELSE ProcsAfterIsRunning

\* RogueBox._update_screen(): the screens one non-blocking read can leave
ReadScreens ==
    IF Alive /\ ~wedged THEN {screen} \cup ChildScreens(build) ELSE {screen}

\* a write to the child raises AttributeError when the channel object has no
\* write method: self.pipe is the integer master fd on POSIX, None before start
WriteRaises == platform = "Posix" \/ ~started

\* ------------------------------------------------------- calls as a whole
\* What one step observes of its collaborators: the screen the
\* synchronization settles on, and what the reward generator (r,
\* goal_achieved) and the evaluator (stop) answer
SettledScreens(counter) == { s \in ChildScreens(counter) : s.msg = "none" }

Observations(counter) ==
    [screen : SettledScreens(counter), r : Rewards,
     goal_achieved : BOOLEAN, stop : BOOLEAN]

\* a call of the evaluator: on_run_begin(), on_step(frame_history, command,
\* reward, step_count) or on_run_end(frame_history, won, is_rogue_dead);
\* frames is the length of the frame history passed
OnRunBegin ==
    [call |-> "on_run_begin", frames |-> 0, command |-> "", reward |-> 0,
     step_count |-> 0, won |-> FALSE, is_rogue_dead |-> FALSE]
OnStep(fh, command, r, n) ==
    [call |-> "on_step", frames |-> Len(fh), command |-> command, reward |-> r,
     step_count |-> n, won |-> FALSE, is_rogue_dead |-> FALSE]
OnRunEnd(fh, won, dead) ==
    [call |-> "on_run_end", frames |-> Len(fh), command |-> "", reward |-> 0,
     step_count |-> 0, won |-> won, is_rogue_dead |-> dead]

\* the RogueBox before any call was applied to it as a whole
NoResult ==
    [step_count |-> 0, frame_history |-> <<>>, reached |-> FALSE, reward |-> 0,
     state |-> 0, ret |-> None, screen |-> get_empty_screen,
     out |-> <<>>, evals |-> <<>>, obs |-> <<>>]
NoProbe == [call |-> "none", command |-> <<>>, obs |-> <<>>, result |-> NoResult]

\* ------------------------------------------------------------ the LLMAgent
Workers == 1..MaxWorkers

\* a worker thread: not started, started (in Run number run, after step
\* number step, before it reads the screen), queried (it read the screen of
\* Run number gen and waits for the LLM or for room in the queue), done (its
\* locals are gone)
NoWorker == [st |-> "unborn", run |-> 0, step |-> 0, gen |-> 0]

\* a decision: the action, and the number of the Run whose screen it was
\* computed against
NoAction == [action |-> <<>>, gen |-> 0]

\* get_llm_action: the actions the LLM answers (never empty: an empty answer
\* is replaced by a random key)
AgentActions == { <<">">> }

\* -------------------------------------------------------------------- Init
Init ==
    /\ platform \in {"Windows", "Posix"}
    /\ build \in BOOLEAN
    /\ options \in [transform_descent_action : BOOLEAN,
                    refresh_after_commands : BOOLEAN,
                    move_rogue : BOOLEAN]
    /\ procs = <<>>
    /\ pid_ok = FALSE
    /\ wedged = FALSE
    /\ started = FALSE
    /\ screen = get_empty_screen
    /\ has_cmd_count = FALSE
    /\ step_count = 0
    /\ frame_history = <<>>
    /\ reached_amulet_level = FALSE
    /\ reward = 0
    /\ state = 0
    /\ pc = "idle"
    /\ todo = <<>>
    /\ ret = None
    /\ wrote = <<>>
    /\ t = 0
    /\ td = 0
    /\ expected_cmd_count = 0
    /\ new_cmd_count = 0
    /\ entered_loop = FALSE
    /\ warned = {}
    /\ probe = NoProbe
    /\ apc = "new"
    /\ llm_thread = 0
    /\ workers = [w \in Workers |-> NoWorker]
    /\ action_queue = <<>>
    /\ chosen_action = NoAction

\* ------------------------------------------------------- send_command, parts
\* send_command: turn descent into ascent once the amulet level was reached
\* (o: the options, reached: self.reached_amulet_level)
Transform(command, o, reached) ==
    IF o.transform_descent_action /\ reached /\ command = ">"
    THEN "<"
    ELSE command

\* send_command: the bytes written for one character: the command, then the
\* refresh command (Ctrl+R) when refresh_after_commands is set
BytesFor(command, o, reached) ==
    <<Transform(command, o, reached)>>
        \o (IF o.refresh_after_commands THEN <<"^R">> ELSE <<>>)

\* send_command: cmd_sent passed to _cmd_busy_wait
CmdSent(o) == IF o.refresh_after_commands THEN 2 ELSE 1

\* time.sleep(busy_wait_seconds): the clock advances by one poll interval or
\* more; elapsed times beyond the maximum are all alike
Advance == {1, MaxWait + 1}
Elapsed(e, d) == Min(e + d, MaxWait + 1)

\* a variant of AppendFrame that keeps only the frames with a status bar
AppendFrameIfStatus(fh, s) ==
    IF has_statusbar(parse_screen(s)) THEN Append(fh, parse_screen(s)) ELSE fh

\* send_command: self.frame_history.append(self.parser.parse_screen(new_screen))
AppendFrame(fh, s) == Append(fh, parse_screen(s))

\* a variant of Lost that forgets the "and not won"
LostEvenIfWon(stop, is_rogue_dead, loop, won) == stop \/ is_rogue_dead \/ loop

\* send_command: lost
Lost(stop, is_rogue_dead, loop, won) == (stop \/ is_rogue_dead \/ loop) /\ ~won

\* a variant of Latch that follows the level of the last frame
LatchFollowsLevel(f, o, reached) ==
    o.transform_descent_action /\ has_statusbar(f) /\ f.lvl = AmuletLevel

\* send_command: the milestone latch after the frame f was appended
Latch(f, o, reached) ==
    IF o.transform_descent_action /\ ~reached
    THEN has_statusbar(f) /\ f.lvl = AmuletLevel
    ELSE reached

\* send_command after the synchronization, as a function of the per-Run
\* attributes b, the settled screen s, entered_loop, and what the reward
\* generator (r, goal_achieved) and the evaluator (stop) answer
Account(b, s, loop, r, goal_achieved, stop, o) ==
    LET fh == AppendFrame(b.frame_history, s)
    IN  [step_count |-> b.step_count + 1,
         frame_history |-> fh,
         reached |-> Latch(Last(fh), o, b.reached),
         reward |-> r,
         state |-> compute_state(fh),
         ret |-> Result(r, compute_state(fh), goal_achieved,
                        Lost(stop, game_over(s), loop, goal_achieved))]

\* the per-Run attributes of the RogueBox
Box ==
    [step_count |-> step_count,
     frame_history |-> frame_history,
     reached |-> reached_amulet_level,
     reward |-> reward,
     state |-> state,
     ret |-> ret]

\* the per-Run attributes with what a call applied as a whole adds: the
\* screen, the bytes written, the evaluator calls, the observations to come
BoxWith(obs) ==
    [step_count |-> step_count,
     frame_history |-> frame_history,
     reached |-> reached_amulet_level,
     reward |-> reward,
     state |-> state,
     ret |-> ret,
     screen |-> screen,
     out |-> <<>>,
     evals |-> <<>>,
     obs |-> obs]

\* a variant of Notify that tells the evaluator of the end of the Run after
\* every step
NotifyAlways(fh, r, dead) == <<OnRunEnd(fh, r.won, dead)>>

\* send_command: if won or lost: evaluator.on_run_end(frame_history, won,
\* is_rogue_dead), for the result r of the step
Notify(fh, r, dead) ==
    IF r.won \/ r.lost THEN <<OnRunEnd(fh, r.won, dead)>> ELSE <<>>

\* send_command for one non-blank key, fixed-delay synchronization: write,
\* settle on the next observation, account the step, call the evaluator
StepF(b, ch, o) ==
    IF WriteRaises
    THEN [b EXCEPT !.ret = Raised]
    ELSE LET ob == Head(b.obs)
             a == Account(b, ob.screen, FALSE, ob.r, ob.goal_achieved, ob.stop, o)
         IN  [step_count |-> a.step_count,
              frame_history |-> a.frame_history,
              reached |-> a.reached,
              reward |-> a.reward,
              state |-> a.state,
              ret |-> a.ret,
              screen |-> ob.screen,
              out |-> b.out \o BytesFor(ch, o, b.reached),
              evals |-> b.evals
                          \o <<OnStep(a.frame_history, Transform(ch, o, b.reached),
                                      a.reward, a.step_count)>>
                          \o Notify(a.frame_history, a.ret, game_over(ob.screen)),
              obs |-> Tail(b.obs)]

RECURSIVE SendCommandF(_, _, _)
RECURSIVE SendSequenceLoop(_, _, _)

\* send_sequence: for ch in sequence: last_result = send_command(ch)
SendSequenceLoop(b, sequence, o) ==
    IF sequence = <<>>
    THEN b
    ELSE LET b1 == SendCommandF(b, <<Head(sequence)>>, o)
         IN  IF b1.ret.kind = "raise"
             THEN b1
             ELSE SendSequenceLoop(b1, Tail(sequence), o)

\* RogueBox.send_sequence(sequence) as a whole
SendSequenceF(b, sequence, o) ==
    SendSequenceLoop([b EXCEPT !.ret = None], sequence, o)

\* a variant of SendCommandF that sends the first key of a longer command
\* instead of streaming the command
SendCommandFirstKey(b, command, o) ==
    LET c == Strip(command) IN
    IF c = <<>>
    THEN [b EXCEPT !.ret = Result(0, b.state, FALSE, FALSE)]
    ELSE StepF(b, Head(c), o)

\* RogueBox.send_command(command) as a whole
SendCommandF(b, command, o) ==
    LET c == Strip(command) IN
    IF c = <<>>
    THEN [b EXCEPT !.ret = Result(0, b.state, FALSE, FALSE)]
    ELSE IF Len(c) > 1
    THEN SendSequenceF(b, c, o)
    ELSE StepF(b, Head(c), o)

\* send_sequence: the loop goes on to the next character, or returns
NextChar ==
    /\ todo' = Tail(todo)
    /\ pc' = IF Tail(todo) = <<>> THEN "idle" ELSE "char"

\* an exception leaves the call in progress, whatever its depth
Raise ==
    /\ ret' = Raised
    /\ todo' = <<>>
    /\ pc' = "idle"

\* _cmd_busy_wait, after _dismiss_all_messages returned, on screen s with tt
\* intervals elapsed and the warnings w issued so far: break on game over,
\* read the count, raise RogueLoopError past the maximum wait (send_command
\* catches it, stops the child and sets entered_loop)
BusyTail(s, tt, w) ==
    IF game_over(s)
    THEN /\ pc' = "finish"
         /\ warned' = w
         /\ UNCHANGED <<new_cmd_count, entered_loop, procs>>
    ELSE /\ new_cmd_count' = IF get_cmd_count(s) >= 0 THEN get_cmd_count(s)
                                                      ELSE new_cmd_count
         /\ IF tt > MaxWait
            THEN /\ procs' = ProcsAfterStop
                 /\ entered_loop' = TRUE
                 /\ warned' = w \cup {"loop"}
                 /\ pc' = "finish"
            ELSE /\ pc' = "settle"
                 /\ warned' = w
                 /\ UNCHANGED <<entered_loop, procs>>

\* a variant of AfterDismiss whose fixed-delay synchronization sleeps and
\* polls again instead of ending
AfterDismissPollsAgain(s, tt, w) ==
    IF has_cmd_count
    THEN BusyTail(s, tt, w)
    ELSE /\ pc' = "settle"
         /\ warned' = w
         /\ UNCHANGED <<new_cmd_count, entered_loop, procs>>

\* what follows _dismiss_all_messages: the rest of the busy-wait iteration,
\* or the end of the fixed-delay synchronization
AfterDismiss(s, tt, w) ==
    IF has_cmd_count
    THEN BusyTail(s, tt, w)
    ELSE /\ pc' = "finish"
         /\ warned' = w
         /\ UNCHANGED <<new_cmd_count, entered_loop, procs>>

\* ----------------------------------------------------------------- _start
\* RogueBox._start(), the child processes being p when it is entered: reset
\* the per-Run attributes, spawn, seed frame_history from the empty screen,
\* poll the screen once, detect the command count, make the bootstrap move
DoStart(p) ==
    /\ step_count' = 0
    /\ state' = 0
    /\ reward' = 0
    /\ reached_amulet_level' = FALSE
    /\ procs' = Append(p, "alive")
    /\ pid_ok' \in (IF platform = "Posix" THEN BOOLEAN ELSE {TRUE})
    /\ wedged' = FALSE
    /\ started' = TRUE
    /\ frame_history' = <<parse_screen(get_empty_screen)>>
    /\ screen' \in {get_empty_screen} \cup ChildScreens(build)
    /\ has_cmd_count' = HasCommandCount(Last(frame_history'))
    /\ ret' = None
    /\ wrote' = <<>>
    /\ IF options.move_rogue
       THEN /\ todo' = <<"j">>
            /\ pc' = "char"
       ELSE /\ todo' = <<>>
            /\ pc' = "idle"
    /\ UNCHANGED <<platform, build, options, waitVars>>

\* RogueBox.__init__ with start_game set: _start()
Start ==
    /\ pc = "idle"
    /\ ~started
    /\ procs = <<>>
    /\ DoStart(procs)

\* RogueBox.reset(): stop(), then _start()
Reset ==
    /\ pc = "idle"
    /\ Len(procs) < MaxSpawns
    /\ DoStart(ProcsAfterStop)

\* RogueBox.stop()
Stop ==
    /\ pc = "idle"
    /\ procs' = ProcsAfterStop
    /\ ret' = None
    /\ UNCHANGED <<envVars, boxVars, waitVars, pc, todo, wrote>>

\* ----------------------------------------------------------- send_command
\* a variant of EmptyResult that repeats the reward of the last step
EmptyResultRepeatsReward(s) == Result(reward, s, FALSE, FALSE)

\* send_command: what an empty command returns: 0, self.state, False, False
EmptyResult(s) == Result(0, s, FALSE, FALSE)

\* send_command(ch) for the first character of seq, the characters still to
\* stream: strip, transform, write the command and the refresh bytes, start
\* the synchronization
DoChar(seq) ==
    LET ch == Head(seq) IN
    IF IsSpace(ch)
    THEN /\ ret' = EmptyResult(state)
         /\ todo' = Tail(seq)
         /\ pc' = IF Tail(seq) = <<>> THEN "idle" ELSE "char"
         /\ wrote' = <<>>
         /\ UNCHANGED waitVars
    ELSE IF WriteRaises \/ (has_cmd_count /\ ~HasCommandCount(Last(frame_history)))
    THEN /\ Raise
         /\ wrote' = <<>>
         /\ UNCHANGED waitVars
    ELSE /\ wrote' = BytesFor(ch, options, reached_amulet_level)
         /\ entered_loop' = FALSE
         /\ warned' = {}
         /\ t' = 0
         /\ td' = 0
         /\ expected_cmd_count' = IF has_cmd_count
                                  THEN Last(frame_history).cc + CmdSent(options)
                                  ELSE expected_cmd_count
         /\ new_cmd_count' = IF has_cmd_count
                             THEN Last(frame_history).cc
                             ELSE new_cmd_count
         /\ todo' = seq
         /\ ret' = None
         /\ pc' = "settle"

\* RogueBox.send_command(command): an empty command returns at once, a longer
\* one is streamed by send_sequence; up to the synchronization of the first
\* character
SendCommand(command) ==
    /\ pc = "idle"
    /\ step_count + Len(Strip(command)) <= MaxSteps
    /\ IF Strip(command) = <<>>
       THEN /\ ret' = IF started THEN EmptyResult(state) ELSE Raised
            /\ wrote' = <<>>
            /\ UNCHANGED <<pc, todo, waitVars>>
       ELSE DoChar(Strip(command))
    /\ UNCHANGED <<envVars, procs, boxVars>>

\* RogueBox.send_sequence(sequence), up to the synchronization of the first
\* character
SendSequence(sequence) ==
    /\ pc = "idle"
    /\ step_count + Len(sequence) <= MaxSteps
    /\ IF sequence = <<>>
       THEN /\ ret' = None
            /\ wrote' = <<>>
            /\ UNCHANGED <<pc, todo, waitVars>>
       ELSE DoChar(sequence)
    /\ UNCHANGED <<envVars, procs, boxVars>>

\* send_sequence: send_command(ch) for the next character, up to its
\* synchronization
BeginChar ==
    /\ pc = "char"
    /\ DoChar(todo)
    /\ UNCHANGED <<envVars, procs, boxVars>>

\* One iteration of the loop of _cmd_busy_wait up to its call of
\* _dismiss_all_messages, or the fixed-delay synchronization: sleep, poll
Settle ==
    /\ pc = "settle"
    /\ IF has_cmd_count /\ ~(new_cmd_count < expected_cmd_count)
       THEN /\ pc' = "finish"
            /\ UNCHANGED <<screen, waitVars, procs>>
       ELSE /\ \E d \in Advance : t' = IF has_cmd_count THEN Elapsed(t, d) ELSE t
            /\ td' = 0
            /\ screen' \in ReadScreens
            /\ UNCHANGED expected_cmd_count
            /\ IF need_to_dismiss(screen')
               THEN /\ pc' = "dismiss"
                    /\ UNCHANGED <<new_cmd_count, entered_loop, warned, procs>>
               ELSE AfterDismiss(screen', t', warned)
    /\ UNCHANGED <<envVars, started, has_cmd_count, step_count, frame_history,
                   reached_amulet_level, reward, state, todo, ret, wrote>>

\* a variant of Dismiss without the check of the elapsed time
DismissNoTimeout ==
    /\ pc = "dismiss"
    /\ screen' \in ReadScreens
    /\ UNCHANGED expected_cmd_count
    /\ \E d \in Advance :
         /\ t' = IF has_cmd_count THEN Elapsed(t, d) ELSE t
         /\ IF need_to_dismiss(screen')
            THEN /\ td' = Elapsed(td, d)
                 /\ pc' = "dismiss"
                 /\ UNCHANGED <<new_cmd_count, entered_loop, warned, procs>>
            ELSE /\ td' = 0
                 /\ AfterDismiss(screen', t', warned)
    /\ wrote' = wrote \o DismissKeys(screen, options)
    /\ UNCHANGED <<envVars, started, has_cmd_count, step_count, frame_history,
                   reached_amulet_level, reward, state, todo, ret>>

\* One iteration of the loop of _dismiss_all_messages: the dismissal key if
\* key-sends are enabled, sleep, poll, give up with a warning past the
\* maximum wait; td is local to the loop
Dismiss ==
    /\ pc = "dismiss"
    /\ screen' \in ReadScreens
    /\ UNCHANGED expected_cmd_count
    /\ \E d \in Advance :
         /\ t' = IF has_cmd_count THEN Elapsed(t, d) ELSE t
         /\ IF Elapsed(td, d) > MaxWait
            THEN /\ td' = 0
                 /\ AfterDismiss(screen', t', warned \cup {"prompt"})
            ELSE IF need_to_dismiss(screen')
            THEN /\ td' = Elapsed(td, d)
                 /\ pc' = "dismiss"
                 /\ UNCHANGED <<new_cmd_count, entered_loop, warned, procs>>
            ELSE /\ td' = 0
                 /\ AfterDismiss(screen', t', warned)
    /\ wrote' = wrote \o DismissKeys(screen, options)
    /\ UNCHANGED <<envVars, started, has_cmd_count, step_count, frame_history,
                   reached_amulet_level, reward, state, todo, ret>>

\* a variant of Finish that lets a timeout leave send_command as an exception
FinishRaisesOnTimeout ==
    /\ pc = "finish"
    /\ warned # {}
    /\ Raise
    /\ t' = 0
    /\ td' = 0
    /\ UNCHANGED <<envVars, procs, boxVars, expected_cmd_count, new_cmd_count,
                   entered_loop, warned>>
    /\ wrote' = <<>>

\* send_command after the synchronization: count the step, append the frame,
\* update the latch, compute reward and state, decide won and lost
Finish ==
    /\ pc = "finish"
    /\ \E r \in Rewards, goal_achieved \in BOOLEAN, stop \in BOOLEAN :
         LET b == Account(Box, screen, entered_loop, r, goal_achieved, stop, options)
         IN  /\ step_count' = b.step_count
             /\ frame_history' = b.frame_history
             /\ reached_amulet_level' = b.reached
             /\ reward' = b.reward
             /\ state' = b.state
             /\ ret' = b.ret
    /\ NextChar
    /\ t' = 0
    /\ td' = 0
    /\ UNCHANGED <<envVars, procs, started, screen, has_cmd_count, expected_cmd_count,
                   new_cmd_count, entered_loop, warned>>
    /\ wrote' = <<>>

\* ------------------------------------------------------------ environment
\* the child exits on its own
ChildExit ==
    /\ Alive
    /\ procs' = SetLast(procs, IF platform = "Windows" THEN "dead" ELSE "zombie")
    /\ UNCHANGED <<envVars, boxVars, waitVars, callVars>>

\* the child stops reacting: it reads no input and draws nothing any more
ChildWedge ==
    /\ Alive
    /\ ~wedged
    /\ wedged' = TRUE
    /\ UNCHANGED <<platform, build, options, pid_ok, procs, boxVars, waitVars, callVars>>

\* --------------------------------------------------------------------- Spec
\* the RogueBox driven by any caller, one call at a time
Next ==
    \/ Start /\ UNCHANGED auxVars
    \/ Reset /\ UNCHANGED auxVars
    \/ Stop /\ UNCHANGED auxVars
    \/ \E command \in Commands : SendCommand(command) /\ UNCHANGED auxVars
    \/ \E sequence \in Commands : SendSequence(sequence) /\ UNCHANGED auxVars
    \/ BeginChar /\ UNCHANGED auxVars
    \/ Settle /\ UNCHANGED auxVars
    \/ Dismiss /\ UNCHANGED auxVars
    \/ Finish /\ UNCHANGED auxVars
    \/ ChildExit /\ UNCHANGED auxVars
    \/ ChildWedge /\ UNCHANGED auxVars

Spec == Init /\ [][Next]_vars

\* ------------------------------------------------------------------ SeqSpec
\* the number of keys of a command that are not blank
RECURSIVE Keys(_)
Keys(command) ==
    IF command = <<>> THEN 0
    ELSE (IF IsSpace(Head(command)) THEN 0 ELSE 1) + Keys(Tail(command))

\* A RogueBox as _start leaves it (no bootstrap move), and a call to apply to
\* it as a whole: a command and one observation for each of its keys
SeqInit ==
    /\ platform \in {"Windows", "Posix"}
    /\ build \in BOOLEAN
    /\ options \in [transform_descent_action : BOOLEAN,
                    refresh_after_commands : BOOLEAN,
                    move_rogue : {FALSE}]
    /\ procs = <<"alive">>
    /\ pid_ok = TRUE
    /\ wedged = FALSE
    /\ started = TRUE
    /\ screen = get_empty_screen
    /\ has_cmd_count = FALSE
    /\ step_count = 0
    /\ frame_history = <<parse_screen(get_empty_screen)>>
    /\ reached_amulet_level = FALSE
    /\ reward = 0
    /\ state = 0
    /\ pc = "idle"
    /\ todo = <<>>
    /\ ret = None
    /\ wrote = <<>>
    /\ t = 0
    /\ td = 0
    /\ expected_cmd_count = 0
    /\ new_cmd_count = 0
    /\ entered_loop = FALSE
    /\ warned = {}
    /\ \E command \in Commands :
         \E obs \in [1..Keys(command) -> Observations(build)] :
            probe = [call |-> "none", command |-> command, obs |-> obs,
                     result |-> NoResult]
    /\ apc = "new"
    /\ llm_thread = 0
    /\ workers = [w \in Workers |-> NoWorker]
    /\ action_queue = <<>>
    /\ chosen_action = NoAction

\* rb.send_sequence(probe.command)
ApplySendSequence ==
    /\ probe.call = "none"
    /\ probe' = [probe EXCEPT
                   !.call = "send_sequence",
                   !.result = SendSequenceF(BoxWith(probe.obs), probe.command, options)]
    /\ UNCHANGED <<envVars, procs, boxVars, waitVars, callVars, agentVars>>

\* rb.send_command(probe.command)
ApplySendCommand ==
    /\ probe.call = "none"
    /\ probe' = [probe EXCEPT
                   !.call = "send_command",
                   !.result = SendCommandF(BoxWith(probe.obs), probe.command, options)]
    /\ UNCHANGED <<envVars, procs, boxVars, waitVars, callVars, agentVars>>

SeqNext ==
    \/ ApplySendSequence
    \/ ApplySendCommand

SeqSpec == SeqInit /\ [][SeqNext]_vars

\* ---------------------------------------------------------------- AgentSpec
\* a variant of is_alive that takes a worker for finished once it has read
\* the screen
is_aliveUntilRead(w) == workers[w].st = "started"

\* threading.Thread.is_alive()
is_alive(w) == workers[w].st \in {"started", "queried"}

\* the call the main thread made to the RogueBox has returned
Returned == pc = "idle" /\ ret.kind # "raise"

\* LLMAgent.__init__: BaseAgent._create_rogue starts the game, _create_ui
\* arms the timer
Construct ==
    /\ apc = "new"
    /\ Start
    /\ apc' = "loop"
    /\ UNCHANGED <<probe, llm_thread, workers, action_queue, chosen_action>>

\* _act_callback, act(): if the LLM is not already thinking, start a worker
ActStartWorker ==
    /\ apc = "loop"
    /\ Returned
    /\ IF llm_thread = 0 \/ ~is_alive(llm_thread)
       THEN \E w \in Workers :
              /\ workers[w].st = "unborn"
              /\ \A v \in 1..(w - 1) : workers[v].st # "unborn"
              /\ workers' = [workers EXCEPT ![w] = [st |-> "started",
                                                      run |-> Len(procs),
                                                      step |-> step_count,
                                                      gen |-> 0]]
              /\ llm_thread' = w
       ELSE UNCHANGED <<llm_thread, workers>>
    /\ apc' = "poll"
    /\ UNCHANGED <<envVars, procs, boxVars, waitVars, callVars, probe,
                   action_queue, chosen_action>>

\* act(): action_queue.get_nowait(); on queue.Empty act returns False and
\* _act_callback goes on to its game-over test
ActPoll ==
    /\ apc = "poll"
    /\ IF action_queue = <<>>
       THEN /\ apc' = IF game_over(screen) THEN "game_over" ELSE "loop"
            /\ UNCHANGED <<action_queue, chosen_action>>
       ELSE /\ chosen_action' = Head(action_queue)
            /\ action_queue' = Tail(action_queue)
            /\ apc' = "send"
    /\ UNCHANGED <<envVars, procs, boxVars, waitVars, callVars, probe,
                   llm_thread, workers>>

\* act(): rb.send_sequence or rb.send_command with the chosen action
ActSend ==
    /\ apc = "send"
    /\ IF Len(chosen_action.action) > 1
       THEN SendSequence(chosen_action.action)
       ELSE SendCommand(chosen_action.action)
    /\ apc' = "sent"
    /\ UNCHANGED <<probe, llm_thread, workers, action_queue, chosen_action>>

\* act() returns won or lost; _act_callback: if rb.game_over() or terminal
ActReturn ==
    /\ apc = "sent"
    /\ Returned
    /\ chosen_action' = NoAction
    /\ apc' = IF game_over(screen) \/ ret.won \/ ret.lost THEN "game_over" ELSE "loop"
    /\ UNCHANGED <<envVars, procs, boxVars, waitVars, callVars, probe,
                   llm_thread, workers, action_queue>>

\* LLMAgent.game_over: super().game_over(), that is rb.reset()
GameOverReset ==
    /\ apc = "game_over"
    /\ Reset
    /\ apc' = "forget"
    /\ UNCHANGED <<probe, llm_thread, workers, action_queue, chosen_action>>

\* LLMAgent.game_over: self.llm_thread = None
GameOverForget ==
    /\ apc = "forget"
    /\ Returned
    /\ llm_thread' = 0
    /\ apc' = "clear"
    /\ UNCHANGED <<envVars, procs, boxVars, waitVars, callVars, probe,
                   workers, action_queue, chosen_action>>

\* LLMAgent.game_over: self.action_queue.queue.clear(); then the timer is
\* renewed
GameOverClear ==
    /\ apc = "clear"
    /\ action_queue' = <<>>
    /\ apc' = "loop"
    /\ UNCHANGED <<envVars, procs, boxVars, waitVars, callVars, probe,
                   llm_thread, workers, chosen_action>>

\* BaseAgent._keypress_callback, key 'r': rb.reset(), the timer is renewed
KeyReset ==
    /\ apc = "loop"
    /\ Reset
    /\ UNCHANGED auxVars

\* _llm_worker: screen = self.rb.get_screen_string()
WorkerRead(w) ==
    /\ workers[w].st = "started"
    /\ workers' = [workers EXCEPT ![w].st = "queried", ![w].step = 0,
                                  ![w].gen = Len(procs)]
    /\ UNCHANGED <<envVars, procs, boxVars, waitVars, callVars, probe,
                   apc, llm_thread, action_queue, chosen_action>>

\* a variant of WorkerPut whose queue has no bound
WorkerPutUnbounded(w) ==
    /\ workers[w].st = "queried"
    /\ \E a \in AgentActions :
         action_queue' = Append(action_queue, [action |-> a, gen |-> workers[w].gen])
    /\ workers' = [workers EXCEPT ![w] = [NoWorker EXCEPT !.st = "done"]]
    /\ UNCHANGED <<envVars, procs, boxVars, waitVars, callVars, probe,
                   apc, llm_thread, chosen_action>>

\* _llm_worker: get_llm_action answers, self.action_queue.put(action) (blocks
\* while the queue is full)
WorkerPut(w) ==
    /\ workers[w].st = "queried"
    /\ Len(action_queue) < 1
    /\ \E a \in AgentActions :
         action_queue' = Append(action_queue, [action |-> a, gen |-> workers[w].gen])
    /\ workers' = [workers EXCEPT ![w] = [NoWorker EXCEPT !.st = "done"]]
    /\ UNCHANGED <<envVars, procs, boxVars, waitVars, callVars, probe,
                   apc, llm_thread, chosen_action>>

\* the LLMAgent of llm_agent.py: move_rogue=True; the agent reads neither the
\* build nor the other flags, a plain build without them is taken
AgentInit ==
    /\ Init
    /\ ~build
    /\ options = [transform_descent_action |-> FALSE,
                  refresh_after_commands |-> FALSE,
                  move_rogue |-> TRUE]

AgentNext ==
    \/ Construct
    \/ ActStartWorker
    \/ ActPoll
    \/ ActSend
    \/ ActReturn
    \/ GameOverReset
    \/ GameOverForget
    \/ GameOverClear
    \/ KeyReset
    \/ \E w \in Workers : WorkerRead(w)
    \/ \E w \in Workers : WorkerPut(w)
    \/ BeginChar /\ UNCHANGED auxVars
    \/ Settle /\ UNCHANGED auxVars
    \/ Dismiss /\ UNCHANGED auxVars
    \/ Finish /\ UNCHANGED auxVars

AgentSpec == AgentInit /\ [][AgentNext]_vars

\* ================================================================== claims
\* C1: whenever the RogueBox has been started, len(frame_history) is
\* step_count + 1; and every start and reset leaves frame_history holding the
\* single bootstrap frame and step_count at 0.
C1_FrameHistoryLength ==
    /\ [](started => Len(frame_history) = step_count + 1)
    /\ [][(Start \/ Reset) => (step_count' = 0 /\ Len(frame_history') = 1)]_vars

\* C1 witness: two commands completed in a restarted Run
C1_Witness ==
    /\ pc = "idle"
    /\ Len(procs) = 2
    /\ step_count = 2
    /\ Len(frame_history) = 3

\* C2: no step reports won and lost together.
C2_NeverWonAndLost == ~(ret.won /\ ret.lost)

\* C2 witness: a step returned won while the game-over screen was showing
C2_Witness ==
    /\ pc = "idle"
    /\ ret.kind = "value"
    /\ ret.won
    /\ game_over(screen)
    /\ step_count > 0

\* C5: a decision taken from the queue to be sent was computed against the
\* screen of the current Run: no decision of a worker that read a previous
\* Run's screen is sent after a restart.
C5_NoStaleDecisionSent ==
    chosen_action # NoAction => chosen_action.gen = Len(procs)

\* C6 (as amended): send_sequence(s) leaves the RogueBox in the same final
\* state (step_count, frame_history, latch, bytes written, evaluator calls)
\* and returns the same result as the sequential send_command calls with the
\* characters of s in order; send_command with a command of more than one
\* character behaves identically to send_sequence on the stripped command.
RECURSIVE Sequential(_, _, _)
Sequential(b, s, o) ==
    IF s = <<>>
    THEN b
    ELSE LET b1 == SendCommandF(b, <<Head(s)>>, o)
         IN  IF b1.ret.kind = "raise" THEN b1 ELSE Sequential(b1, Tail(s), o)

SequenceIsSequential ==
    (probe.call = "send_sequence" /\ probe.command # <<>>) =>
        probe.result = Sequential(BoxWith(probe.obs), probe.command, options)

AmuletFrameSeen ==
    \E i \in 1..Len(frame_history) :
        has_statusbar(frame_history[i]) /\ frame_history[i].lvl = AmuletLevel

InStep == pc \in {"settle", "dismiss", "finish"}

C7_DescentLatch ==
    /\ reached_amulet_level <=> (options.transform_descent_action /\ AmuletFrameSeen)
    /\ InStep =>
         wrote[1] = (IF Head(todo) = ">" /\ options.transform_descent_action
                        /\ AmuletFrameSeen
                     THEN "<" ELSE Head(todo))

\* C7 witness: a '>' written as '<' after the amulet level was seen
C7_Witness ==
    /\ InStep
    /\ Head(todo) = ">"
    /\ wrote[1] = "<"
    /\ reached_amulet_level

\* C7 witness of the reset: a second Run, its latch clear, writing '>' as is
C7_WitnessReset ==
    /\ InStep
    /\ Len(procs) = 2
    /\ Head(todo) = ">"
    /\ wrote[1] = ">"
    /\ options.transform_descent_action

\* C10: the bootstrap frame (index 0 of frame_history) is parsed from a
\* screen that shows the status line.
C10_BootstrapFrameHasStatus ==
    started => has_statusbar(frame_history[1])

\* C4: when a child is spawned every earlier child has been killed and
\* reaped: no earlier child is alive or a zombie.
C4_PreviousChildrenReaped ==
    \A i \in 1..(Len(procs) - 1) : procs[i] \in {"dead", "reaped"}

\* C3: on a build whose status line shows the command count, a command that
\* never brings the count to its expected value (the child is wedged, and the
\* settled screen still shows a count below the pre-command count plus the
\* units of work written) is reported lost and leaves the child not alive.
CounterStuck ==
    /\ build
    /\ wedged
    /\ HasCommandCount(Last(frame_history))
    /\ get_cmd_count(screen) >= 0
    /\ get_cmd_count(screen) < Last(frame_history).cc + CmdSent(options)

C3_StuckCounterIsLost ==
    [][ (pc = "finish" /\ pc' # "finish" /\ CounterStuck /\ ~ret'.won)
        => (ret'.lost /\ ~Alive') ]_vars

\* C9: a step whose synchronization timed out (a RogueLoopWarning was
\* issued) still counts the step, appends a frame and returns a result, and
\* a reset() after it leaves a new child alive and the per-Run state reseeded.
TimedOutStep == pc = "finish" /\ warned # {}

C9_TimeoutIsNotRaised ==
    [][ /\ (TimedOutStep /\ pc' # "finish") =>
            /\ ret'.kind = "value"
            /\ step_count' = step_count + 1
            /\ Len(frame_history') = Len(frame_history) + 1
        /\ (Reset /\ warned # {}) =>
            /\ Alive'
            /\ started'
            /\ step_count' = 0
            /\ frame_history' = <<parse_screen(get_empty_screen)>>
            /\ ~reached_amulet_level'
      ]_vars

\* C9 witness: a Run restarted by reset() after a step that timed out
C9_Witness ==
    /\ pc = "idle"
    /\ warned # {}
    /\ Alive
    /\ Len(procs) = 2
    /\ step_count = 0

LiveSpec ==
    /\ Spec
    /\ WF_vars((BeginChar \/ Settle \/ Dismiss \/ Finish) /\ UNCHANGED auxVars)

\* C11: the settle strategy is chosen at start and kept for the Run, and it
\* matches the build: has_cmd_count is true exactly when the status line of
\* the running program shows a command count.
C11_SettleStrategyMatchesBuild ==
    /\ [](started => (has_cmd_count <=> build))
    /\ [][(started /\ ~(Start \/ Reset)) => has_cmd_count' = has_cmd_count]_vars

\* C12 (as amended): without command-counter support a single-character
\* send_command sleeps and polls once, and the synchronization ends there
\* exactly when the polled screen shows no prompt; further sleep-and-poll
\* rounds happen only while a prompt is shown, never lead back to the first
\* sleep, never raise, and report running out of time as a warning only.
FixedDelay == ~has_cmd_count

ChildClearsOnKey ==
    screen'.msg = (IF \E i \in (Len(wrote) + 1)..Len(wrote') : wrote'[i] = " "
                   THEN "none" ELSE screen.msg)

C13_PagerPromptDismissed ==
    /\ [](screen.msg = "more" => need_to_dismiss(screen))
    /\ [][(Dismiss /\ screen.msg = "more" /\ ChildClearsOnKey)
             => ~need_to_dismiss(screen')]_vars

\* C14: prompt dismissal is a configuration choice: some options enable the
\* key-sends and some disable them; enabled, a dismissal step writes a space
\* for a pager prompt, an escape for a confirm modal; disabled, it writes
\* nothing.
RogueBoxOptions ==
    [transform_descent_action : BOOLEAN, refresh_after_commands : BOOLEAN,
     move_rogue : BOOLEAN]

C14_DismissalIsConfigurable ==
    /\ [](\E o \in RogueBoxOptions : KeySendsEnabled(o))
    /\ [](\E o \in RogueBoxOptions : ~KeySendsEnabled(o))
    /\ [][Dismiss => wrote' = wrote \o (IF KeySendsEnabled(options)
                                        THEN DismissKey(screen) ELSE <<>>)]_vars

\* ------------------------------------------------------------------ MapSpec
\* the glyphs of the map cells next to the player, the glyphs that block a
\* move, and what the player can stand on
Glyphs == {"-", "|", " ", ".", "#", "%"}
Blocking == {"-", "|", " "}
Floor == {".", "%"}

\* the cells of the screen around the player, in the order a scan of the
\* rows visits them
Cells ==
    << <<1, 1>>, <<1, 2>>, <<1, 3>>,
       <<2, 1>>, <<2, 2>>, <<2, 3>>,
       <<3, 1>>, <<3, 2>>, <<3, 3>> >>

\* the screen the child draws: the player glyph on the player's cell, the
\* glyphs k, j, h, l above, below, left and right of it
Draw(k, j, h, l) ==
    [p \in {Cells[i] : i \in 1..Len(Cells)} |->
        IF p = <<2, 2>> THEN "@"
        ELSE IF p = <<1, 2>> THEN k
        ELSE IF p = <<3, 2>> THEN j
        ELSE IF p = <<2, 1>> THEN h
        ELSE IF p = <<2, 3>> THEN l
        ELSE " "]

\* RogueFrameInfo.get_list_of_positions_by_tile(tile) of the frame parsed
\* from the screen g: the cells that show the tile
get_list_of_positions_by_tile(g, tile) ==
    SelectSeq(Cells, LAMBDA p : g[p] = tile)

\* RogueBox.player_pos
player_pos(g) == get_list_of_positions_by_tile(g, "@")[1]

\* RogueBox.stairs_pos (<<>> for None)
stairs_pos(g) ==
    LET stairs == get_list_of_positions_by_tile(g, "%") IN
    IF stairs # <<>> THEN stairs[1] ELSE <<>>

\* RogueBox.get_legal_actions(), the last frame being the frame of the screen
get_legal_actions(g) ==
    LET row == player_pos(g)[1]
        column == player_pos(g)[2]
    IN  (IF g[<<row - 1, column>>] \notin Blocking THEN <<"k">> ELSE <<>>)
        \o (IF g[<<row + 1, column>>] \notin Blocking THEN <<"j">> ELSE <<>>)
        \o (IF g[<<row, column - 1>>] \notin Blocking THEN <<"h">> ELSE <<>>)
        \o (IF g[<<row, column + 1>>] \notin Blocking THEN <<"l">> ELSE <<>>)
        \o (IF player_pos(g) = stairs_pos(g) THEN <<">">> ELSE <<>>)

\* A started RogueBox whose screen shows the player on a cell of the kind
\* under, between four neighbour cells
MapInit ==
    /\ platform = "Windows"
    /\ build = FALSE
    /\ options = [transform_descent_action |-> FALSE,
                  refresh_after_commands |-> FALSE, move_rogue |-> FALSE]
    /\ procs = <<"alive">>
    /\ pid_ok = TRUE
    /\ wedged = FALSE
    /\ started = TRUE
    /\ screen = get_empty_screen
    /\ has_cmd_count = FALSE
    /\ step_count = 0
    /\ frame_history = <<parse_screen(get_empty_screen)>>
    /\ reached_amulet_level = FALSE
    /\ reward = 0
    /\ state = 0
    /\ pc = "idle"
    /\ todo = <<>>
    /\ ret = None
    /\ wrote = <<>>
    /\ t = 0
    /\ td = 0
    /\ expected_cmd_count = 0
    /\ new_cmd_count = 0
    /\ entered_loop = FALSE
    /\ warned = {}
    /\ \E under \in Floor : \E k, j, h, l \in Glyphs :
         probe = [call |-> "none", under |-> under, screen |-> Draw(k, j, h, l),
                  actions |-> <<>>]
    /\ apc = "new"
    /\ llm_thread = 0
    /\ workers = [w \in Workers |-> NoWorker]
    /\ action_queue = <<>>
    /\ chosen_action = NoAction

\* rb.get_legal_actions()
GetLegalActions ==
    /\ probe.call = "none"
    /\ probe' = [probe EXCEPT !.call = "get_legal_actions",
                              !.actions = get_legal_actions(probe.screen)]
    /\ UNCHANGED <<envVars, procs, boxVars, waitVars, callVars, agentVars>>

MapNext == GetLegalActions

MapSpec == MapInit /\ [][MapNext]_vars

\* C15: get_legal_actions returns, in the order k, j, h, l, the moves whose
\* neighbour cell is not '-', '|' or ' ', followed by '>' exactly when the
\* player stands on the stairs.
Move(g, p, key) == IF g[p] \notin Blocking THEN <<key>> ELSE <<>>

C15_LegalActions ==
    probe.call = "get_legal_actions" =>
        probe.actions =
            Move(probe.screen, <<1, 2>>, "k") \o Move(probe.screen, <<3, 2>>, "j")
            \o Move(probe.screen, <<2, 1>>, "h") \o Move(probe.screen, <<2, 3>>, "l")
            \o (IF probe.under = "%" THEN <<">">> ELSE <<>>)

\* C16: stop() kills the child if it is alive, and on a Run already stopped
\* (or before any start) it sends no signal, changes no RogueBox state and
\* does not raise.
C16_StopIdempotent ==
    /\ [][Stop => ~Alive']_vars
    /\ [][(Stop /\ ~Alive) =>
             /\ \A i \in 1..Len(procs) : procs[i] = "alive" <=> procs'[i] = "alive"
             /\ UNCHANGED boxVars
             /\ ret'.kind # "raise"]_vars

\* C17 (as amended): on a started RogueBox send_command with an empty command
\* returns (0, state, False, False): the state of the most recent completed
\* step (of the start when there is none), with reward 0 and neither won nor
\* lost, whatever that step returned.
EmptySend == \E command \in Commands : Strip(command) = <<>> /\ SendCommand(command)

C17_EmptyReturnsLastState ==
    [][(started /\ EmptySend) =>
         /\ ret' = Result(0, state, FALSE, FALSE)
         /\ ret'.state = (IF step_count > 0 THEN compute_state(frame_history) ELSE 0)
         /\ pc' = "idle"]_vars

\* C17 witness: an empty command has returned after a step with a reward
C17_Witness ==
    /\ pc = "idle"
    /\ step_count > 0
    /\ reward # 0
    /\ ret = Result(0, state, FALSE, FALSE)

\* C17 as stated: an empty command returns the tuple the most recent
\* completed step returned.
C17_AsStated ==
    [][(/\ started
        /\ step_count > 0
        /\ ret = Result(reward, state, ret.won, ret.lost)
        /\ EmptySend) => ret' = ret]_vars

\* C18: send_command with an empty, None or whitespace-only command is a
\* no-op on state: it writes nothing to the child, does not poll the screen,
\* and leaves step_count, frame_history, reward, state, the milestone latch,
\* the child and the synchronization state as they were.
Blank(command) == \A i \in 1..Len(command) : command[i] = " "

C18_EmptyCommandNoOp ==
    [][(\E command \in Commands : Blank(command) /\ SendCommand(command)) =>
         /\ wrote' = <<>>
         /\ UNCHANGED <<envVars, procs, boxVars, waitVars, pc, todo>>]_vars

\* C18 witness: a whitespace-only or empty command has returned on a Run
\* that has made no step
C18_Witness ==
    /\ started
    /\ pc = "idle"
    /\ step_count = 0
    /\ ret.kind = "value"
    /\ wrote = <<>>
    /\ Len(frame_history) = 1

\* C19 (as amended): at most one decision worker started in a Run is in
\* flight, and act never starts a worker while the worker it last started
\* and still refers to has not finished; a worker of the Run before a
\* game_over restart may still be in flight beside the worker of the new Run.
InFlight(w) == workers[w].st \in {"started", "queried"}

C19_OneWorkerPerRun ==
    /\ [](\A v, w \in Workers :
            (v # w /\ InFlight(v) /\ InFlight(w)) => workers[v].run # workers[w].run)
    /\ [][(ActStartWorker /\ llm_thread # 0 /\ InFlight(llm_thread))
             => workers' = workers]_vars
    /\ [][\A w \in Workers : (~InFlight(w) /\ InFlight(w)') => ActStartWorker]_vars

\* C19 witness: after a game_over restart the worker of the new Run has been
\* started while the worker of the Run before is in flight
C19_Witness ==
    \E v, w \in Workers :
        /\ InFlight(v)
        /\ InFlight(w)
        /\ workers[v].run < workers[w].run
        /\ llm_thread = w

\* C19 as stated: at most one decision worker is in flight at any time.
C19_AsStated == Cardinality({w \in Workers : InFlight(w)}) <= 1

\* C20: a decision worker reads the screen that existed when it was
\* scheduled: its read happens neither while the main loop's call to the
\* RogueBox is in progress nor after a later step or restart has changed the
\* screen.
C20_WorkerReadsScheduledScreen ==
    [][\A w \in Workers : WorkerRead(w) =>
          /\ pc = "idle"
          /\ workers[w].run = Len(procs)
          /\ workers[w].step = step_count]_vars

\* C21: the handoff queue never holds more than one pending decision, and a
\* poll of act that finds it empty is a no-op: act returns without waiting,
\* no command is sent to the child, step_count and frame_history are as they
\* were.
EmptyPoll == ActPoll /\ action_queue = <<>>

C21_SingleSlotQueue ==
    /\ [](Len(action_queue) <= 1)
    /\ [][EmptyPoll =>
             /\ apc' \in {"loop", "game_over"}
             /\ chosen_action' = NoAction
             /\ wrote' = <<>>
             /\ UNCHANGED <<procs, boxVars, callVars, waitVars, action_queue>>]_vars
    /\ [](apc = "poll" => ENABLED ActPoll)

\* C21 witness: on the first Run the only step made is the bootstrap move, a
\* worker is in flight and act has returned from a poll of the empty queue
C21_Witness ==
    /\ apc = "loop"
    /\ pc = "idle"
    /\ platform = "Windows"
    /\ Len(procs) = 1
    /\ step_count = 1
    /\ llm_thread # 0
    /\ InFlight(llm_thread)
    /\ action_queue = <<>>

\* C22: on a build whose status line shows the command count, a status line
\* that is only partially drawn at a poll tick does not end the wait: the
\* synchronization goes on polling unless it has run out of time.
C22_PartialStatusRetried ==
    [][(build /\ started /\ (Settle \/ Dismiss) /\ screen'.status = "partial")
         => (pc' = "finish" => warned' # {})]_vars

\* C27: on a build whose status line shows the command count, the expected
\* count of a command is the count of the last frame plus the units of work
\* written (the command, the refresh bytes, the dismissal keys), and a step
\* that did not time out completes on a lower count only on a game-over
\* screen.
ExpectedCount == Last(frame_history).cc + Len(wrote)

C27_ExpectedCount ==
    /\ [](pc \in {"settle", "dismiss", "finish"} =>
             Len(wrote) >= CmdSent(options))
    /\ [][(/\ build
           /\ pc = "finish" /\ pc' # "finish"
           /\ HasCommandCount(Last(frame_history))
           /\ get_cmd_count(screen) >= 0
           /\ ~game_over(screen)
           /\ warned = {})
            => get_cmd_count(screen) >= ExpectedCount]_vars

\* C28: on a build whose status line shows the command count, a poll tick
\* that shows the game-over screen, or the count at its expected value with
\* no prompt left, settles the command: the tick reports no timeout and
\* kills no process, whatever the time elapsed.
SettlesOn(s) ==
    \/ game_over(s)
    \/ /\ ~need_to_dismiss(s)
       /\ HasCommandCount(Last(frame_history))
       /\ get_cmd_count(s) >= Last(frame_history).cc + Len(wrote')

C28_SettledNotTimedOut ==
    [][(build /\ started /\ (Settle \/ Dismiss) /\ SettlesOn(screen'))
         => /\ warned' = warned
            /\ ~entered_loop'
            /\ procs' = procs]_vars

\* C23: a command sent on a started RogueBox whose child is gone (the write
\* goes to a closed channel) does not raise: the call goes on to its
\* synchronization, and the step completes with a result, the step counted
\* and a frame appended.
SendsKey ==
    \/ \E command \in Commands : Strip(command) # <<>> /\ SendCommand(command)
    \/ \E sequence \in Commands :
          sequence # <<>> /\ ~IsSpace(Head(sequence)) /\ SendSequence(sequence)

C23_WriteFailureTolerated ==
    /\ [][(started /\ ~Alive /\ SendsKey) =>
             (ret'.kind # "raise" /\ pc' = "settle")]_vars
    /\ [][(started /\ ~Alive /\ pc = "finish" /\ pc' # "finish") =>
             /\ ret'.kind = "value"
             /\ step_count' = step_count + 1
             /\ Len(frame_history') = Len(frame_history) + 1]_vars

\* ----------------------------------------------------------------- ConfSpec
\* the options RogueBox.__init__ looks at: the three flags, start_game, and
\* what it validates: the game path (shutil.which finds it executable or
\* not), the reward and state generators (an instance or a known name, None,
\* or a name that rewards / states does not define)
Generators == {"known", "None", "unknown"}

ConfOptions ==
    [transform_descent_action : BOOLEAN, refresh_after_commands : BOOLEAN,
     move_rogue : BOOLEAN, start_game : BOOLEAN,
     game_exe_path : {"executable", "missing"},
     reward_generator : Generators, state_generator : Generators]

\* a variant of ConfigError that does not look at the game path
ConfigErrorIgnoresPath(o) ==
    \/ o.reward_generator # "known"
    \/ o.state_generator # "known"

\* RogueBox.__init__: the ValueError raised for the options o
ConfigError(o) ==
    \/ o.game_exe_path # "executable"
    \/ o.reward_generator # "known"
    \/ o.state_generator # "known"

\* before the constructor is called: no RogueBox, no child
ConfInit ==
    /\ platform \in {"Windows", "Posix"}
    /\ build \in BOOLEAN
    /\ options \in ConfOptions
    /\ procs = <<>>
    /\ pid_ok = FALSE
    /\ wedged = FALSE
    /\ started = FALSE
    /\ screen = get_empty_screen
    /\ has_cmd_count = FALSE
    /\ step_count = 0
    /\ frame_history = <<>>
    /\ reached_amulet_level = FALSE
    /\ reward = 0
    /\ state = 0
    /\ pc = "new"
    /\ todo = <<>>
    /\ ret = None
    /\ wrote = <<>>
    /\ t = 0
    /\ td = 0
    /\ expected_cmd_count = 0
    /\ new_cmd_count = 0
    /\ entered_loop = FALSE
    /\ warned = {}
    /\ probe = NoProbe
    /\ apc = "new"
    /\ llm_thread = 0
    /\ workers = [w \in Workers |-> NoWorker]
    /\ action_queue = <<>>
    /\ chosen_action = NoAction

\* RogueBox(options): validate the options, then _start() if start_game
New ==
    /\ pc = "new"
    /\ IF ConfigError(options)
       THEN /\ pc' = "failed"
            /\ ret' = Raised
            /\ UNCHANGED <<envVars, procs, boxVars, waitVars, todo, wrote>>
       ELSE IF options.start_game
       THEN DoStart(procs)
       ELSE /\ pc' = "idle"
            /\ UNCHANGED <<envVars, procs, boxVars, waitVars, todo, ret, wrote>>

ConfNext ==
    \/ New /\ UNCHANGED auxVars
    \/ BeginChar /\ UNCHANGED auxVars
    \/ Settle /\ UNCHANGED auxVars
    \/ Dismiss /\ UNCHANGED auxVars
    \/ Finish /\ UNCHANGED auxVars

ConfSpec == ConfInit /\ [][ConfNext]_vars

\* C24: a RogueBox constructed with a game path that is missing or not
\* executable, or with a reward or state generator that is None or unknown,
\* raises before any child is spawned, start_game set or not: no process
\* exists after the failed construction.
BadOptions ==
    \/ options.game_exe_path = "missing"
    \/ options.reward_generator \in {"None", "unknown"}
    \/ options.state_generator \in {"None", "unknown"}

C24_BadOptionsFailFast ==
    BadOptions =>
        /\ procs = <<>>
        /\ ~started
        /\ pc \in {"new", "failed"}
        /\ pc = "failed" => ret = Raised

\* C24 witness: the construction has failed on a missing game path, with
\* start_game set
C24_Witness ==
    /\ pc = "failed"
    /\ options.start_game
    /\ options.game_exe_path = "missing"
    /\ options.reward_generator = "known"
    /\ options.state_generator = "known"

\* C25: for every step of one key, won is the goal flag of the reward
\* generator, and lost is true exactly when won is false and the evaluator
\* asked to stop, or the settled screen is the game-over screen, or the
\* synchronization timed out.
C25_WonAndLost ==
    [][Finish =>
         \E goal_achieved, stop \in BOOLEAN :
            /\ ret'.won = goal_achieved
            /\ ret'.lost = (/\ ~goal_achieved
                            /\ (stop \/ game_over(screen) \/ warned # {}))]_vars

\* ----------------------------------------------------------------- EvalSpec
\* RogueBox._start() as a whole, the bootstrap move observing ob: the per-Run
\* attributes reset, the evaluator told of the new Run, the frame history
\* seeded, and send_command('j') if move_rogue
StartF(o, ob) ==
    LET b == [step_count |-> 0,
              frame_history |-> <<parse_screen(get_empty_screen)>>,
              reached |-> FALSE,
              reward |-> 0,
              state |-> 0,
              ret |-> None,
              screen |-> get_empty_screen,
              out |-> <<>>,
              evals |-> <<OnRunBegin>>,
              obs |-> <<ob>>]
    IN  IF o.move_rogue THEN StepF(b, "j", o) ELSE [b EXCEPT !.obs = <<>>]

\* what a step observes, as far as the evaluator's calls depend on it: a
\* game-over screen or a map screen, the goal flag, the stop request
EvalObservations ==
    { ob \in Observations(FALSE) :
        ob.screen.status # "partial" /\ ob.screen.lvl < AmuletLevel }

\* A RogueBox that has just been started; probe.result holds its per-Run
\* attributes and the calls the evaluator got in the Run
EvalInit ==
    /\ platform \in {"Windows", "Posix"}
    /\ build = FALSE
    /\ options \in {o \in RogueBoxOptions :
                      ~o.transform_descent_action /\ ~o.refresh_after_commands}
    /\ procs = <<"alive">>
    /\ pid_ok = TRUE
    /\ wedged = FALSE
    /\ started = TRUE
    /\ screen = get_empty_screen
    /\ has_cmd_count = FALSE
    /\ step_count = 0
    /\ frame_history = <<parse_screen(get_empty_screen)>>
    /\ reached_amulet_level = FALSE
    /\ reward = 0
    /\ state = 0
    /\ pc = "idle"
    /\ todo = <<>>
    /\ ret = None
    /\ wrote = <<>>
    /\ t = 0
    /\ td = 0
    /\ expected_cmd_count = 0
    /\ new_cmd_count = 0
    /\ entered_loop = FALSE
    /\ warned = {}
    /\ \E ob \in EvalObservations :
         probe = [call |-> "start", command |-> <<>>, obs |-> <<>>,
                  result |-> StartF(options, ob)]
    /\ apc = "new"
    /\ llm_thread = 0
    /\ workers = [w \in Workers |-> NoWorker]
    /\ action_queue = <<>>
    /\ chosen_action = NoAction

\* rb.send_command(command) on the RogueBox of probe.result
EvalSendCommand ==
    \E command \in Commands :
      \E obs \in [1..Keys(command) -> EvalObservations] :
        /\ probe.result.step_count + Keys(command) <= MaxSteps
        /\ probe' = [call |-> "send_command", command |-> command, obs |-> <<>>,
                     result |-> SendCommandF([probe.result EXCEPT !.obs = obs,
                                                                 !.out = <<>>],
                                             command, options)]
        /\ UNCHANGED <<envVars, procs, boxVars, waitVars, callVars, agentVars>>

\* rb.send_sequence(sequence) on the RogueBox of probe.result
EvalSendSequence ==
    \E sequence \in Commands :
      \E obs \in [1..Keys(sequence) -> EvalObservations] :
        /\ probe.result.step_count + Keys(sequence) <= MaxSteps
        /\ probe' = [call |-> "send_sequence", command |-> sequence, obs |-> <<>>,
                     result |-> SendSequenceF([probe.result EXCEPT !.obs = obs,
                                                                  !.out = <<>>],
                                              sequence, options)]
        /\ UNCHANGED <<envVars, procs, boxVars, waitVars, callVars, agentVars>>

\* rb.reset() on the RogueBox of probe.result: stop(), _start()
EvalReset ==
    /\ \E ob \in EvalObservations :
         probe' = [call |-> "reset", command |-> <<>>, obs |-> <<>>,
                   result |-> StartF(options, ob)]
    /\ UNCHANGED <<envVars, procs, boxVars, waitVars, callVars, agentVars>>

EvalNext ==
    \/ EvalSendCommand
    \/ EvalSendSequence
    \/ EvalReset

EvalSpec == EvalInit /\ [][EvalNext]_vars

\* C26: in a Run the evaluator gets on_run_begin once, first; every step of
\* one key calls on_step once, after the step was counted, its frame
\* appended and its reward computed; on_run_end follows the on_step of a step
\* exactly when the step returns won or lost, with the step's won flag and
\* game-over flag.
Ev == probe.result.evals

OnSteps(n) == {i \in 1..n : Ev[i].call = "on_step"}

\* the call applied last ended with a step of one key that returned
LastIsStep ==
    /\ probe.result.ret.kind = "value"
    /\ \/ probe.call \in {"start", "reset"} /\ options.move_rogue
       \/ probe.call = "send_command" /\ Strip(probe.command) # <<>>
       \/ /\ probe.call = "send_sequence"
          /\ probe.command # <<>>
          /\ ~IsSpace(Last(probe.command))

C26_EvaluatorProtocol ==
    /\ Ev # <<>>
    /\ Ev[1] = OnRunBegin
    /\ \A i \in 2..Len(Ev) : Ev[i].call # "on_run_begin"
    /\ Cardinality(OnSteps(Len(Ev))) = probe.result.step_count
    /\ \A i \in OnSteps(Len(Ev)) :
          /\ Ev[i].step_count = Cardinality(OnSteps(i))
          /\ Ev[i].frames = Ev[i].step_count + 1
          /\ Ev[i].reward \in Rewards
    /\ \A i \in 1..Len(Ev) :
          Ev[i].call = "on_run_end" =>
             /\ i > 1
             /\ Ev[i - 1].call = "on_step"
             /\ Ev[i].frames = Ev[i - 1].frames
    /\ LastIsStep =>
          LET r == probe.result.ret IN
          /\ (Last(Ev).call = "on_run_end") <=> (r.won \/ r.lost)
          /\ Last(Ev).call = "on_run_end" =>
                /\ Last(Ev).won = r.won
                /\ Last(Ev).is_rogue_dead = game_over(probe.result.screen)
                /\ Ev[Len(Ev) - 1].reward = r.reward
          /\ Last(Ev).call = "on_step" => Last(Ev).reward = r.reward

\* C26 witness: a Run of two steps, the second of which ended it
C26_Witness ==
    /\ LastIsStep
    /\ probe.result.step_count = 2
    /\ Len(Ev) = 4
    /\ Ev[2].call = "on_step"
    /\ Ev[3].call = "on_step"
    /\ Ev[4].call = "on_run_end"

\* C30: in a Run the evaluator gets on_run_end at most once.
C30_RunEndOnce ==
    Cardinality({i \in 1..Len(Ev) : Ev[i].call = "on_run_end"}) <= 1

\* C29: the queries read the RogueBox without changing it, and whenever one
\* can be made (the RogueBox started, no call in progress) the last frame,
\* from which get_legal_actions takes the player position, is the frame of
\* the current screen, on which it looks up the neighbour cells.
C29_QueriesReadOneScreen ==
    (started /\ pc = "idle") => Last(frame_history) = parse_screen(screen)

\* ---------------------------------------------------------------- TimerSpec
\* The agents of one GUI session: the BaseAgent, and the AgentWrapper around
\* it when there is one.  Each keeps its own _pending_action_timer attribute.
Agents == {"agent", "wrapper"}

\* the keys a user can press: quit, reset, any other key
PressedKeys == {"q", "r", "x"}

\* ui.on_timer_end(ms, cb) for the _act_callback of agent a: a one-shot timer
\* with a fresh handle becomes pending; a keeps the handle in its
\* _pending_action_timer
on_timer_end(u, a) ==
    [u EXCEPT !.pending = @ \cup {[id |-> u.next, cb |-> a]},
              !.timer[a] = u.next,
              !.next = @ + 1]

\* ui.cancel_timer(handle): the timer of that handle is no longer pending; a
\* handle that fired or was cancelled before cancels nothing
cancel_timer(u, h) == [u EXCEPT !.pending = {p \in @ : p.id # h}]

\* BaseAgent._create_ui with options.gui: the first act-timer
create_ui(u) == on_timer_end(u, "agent")

\* AgentWrapper._replace_timer_cb: cancel the wrapped agent's pending timer,
\* arm a timer for the wrapper's _act_callback
replace_timer_cb(u) == on_timer_end(cancel_timer(u, u.timer["agent"]), "wrapper")

\* the timer part of BaseAgent._keypress_callback for 'r': cancel the pending
\* timer, (reset, draw), arm a new one
keypress_reset(u) == on_timer_end(cancel_timer(u, u.timer["agent"]), "agent")

\* the timer part of a key press: the handler registered last is the
\* wrapper's when there is one; it runs the wrapped agent's handler, then
\* _replace_timer_cb, whatever the key
keypress_callback(u, key) ==
    LET base == IF key = "r" THEN keypress_reset(u) ELSE u
    IN  IF u.wrapped THEN replace_timer_cb(base) ELSE base

\* the timer part of _act_callback when timer p fires: the timer is spent,
\* the callback of its agent renews it
act_callback(u, p) ==
    on_timer_end([u EXCEPT !.pending = @ \ {p}], p.cb)

\* the user interface before any agent is constructed
NoUi == [call |-> "none", wrapped |-> FALSE, exited |-> FALSE, pending |-> {},
         timer |-> [a \in Agents |-> 0], next |-> 1]

\* agent = MyAgent(options) with options.gui, then perhaps MyWrapper(agent);
\* the RogueBox is started, on Windows
TimerInit ==
    /\ platform = "Windows"
    /\ build = FALSE
    /\ options = [transform_descent_action |-> FALSE,
                  refresh_after_commands |-> FALSE, move_rogue |-> FALSE]
    /\ procs = <<"alive">>
    /\ pid_ok = TRUE
    /\ wedged = FALSE
    /\ started = TRUE
    /\ screen \in {get_empty_screen} \cup ChildScreens(FALSE)
    /\ has_cmd_count = FALSE
    /\ step_count = 0
    /\ frame_history = <<parse_screen(get_empty_screen)>>
    /\ reached_amulet_level = FALSE
    /\ reward = 0
    /\ state = 0
    /\ pc = "idle"
    /\ todo = <<>>
    /\ ret = None
    /\ wrote = <<>>
    /\ t = 0
    /\ td = 0
    /\ expected_cmd_count = 0
    /\ new_cmd_count = 0
    /\ entered_loop = FALSE
    /\ warned = {}
    /\ \E w \in BOOLEAN :
         probe = IF w THEN [replace_timer_cb(create_ui(NoUi)) EXCEPT !.wrapped = TRUE]
                      ELSE create_ui(NoUi)
    /\ apc = "new"
    /\ llm_thread = 0
    /\ workers = [w \in Workers |-> NoWorker]
    /\ action_queue = <<>>
    /\ chosen_action = NoAction

\* a timer fires: _act_callback of its agent.  act() is the subclass's; it
\* tells whether the state is terminal.  game_over() is rb.reset().
TimerExpires ==
    /\ ~probe.exited
    /\ probe.next <= MaxTimers
    /\ \E p \in probe.pending : \E terminal \in BOOLEAN :
         /\ probe' = [act_callback(probe, p) EXCEPT !.call = "_act_callback"]
         /\ IF game_over(screen) \/ terminal
            THEN Reset
            ELSE UNCHANGED <<envVars, procs, boxVars, waitVars, callVars>>
    /\ UNCHANGED agentVars

\* the user presses 'q': rb.quit_the_game(), exit()
KeyQuit ==
    /\ ~probe.exited
    /\ pc = "idle"
    /\ wrote' = <<"Q", "y", "\n">>
    /\ probe' = [probe EXCEPT !.call = "_keypress_callback", !.exited = TRUE]
    /\ UNCHANGED <<envVars, procs, boxVars, waitVars, pc, todo, ret, agentVars>>

\* the user presses 'r' or another key: _keypress_callback
KeyPress ==
    /\ ~probe.exited
    /\ probe.next + 1 <= MaxTimers
    /\ \E key \in PressedKeys \ {"q"} :
         /\ probe' = [keypress_callback(probe, key) EXCEPT !.call = "_keypress_callback"]
         /\ IF key = "r"
            THEN Reset
            ELSE UNCHANGED <<envVars, procs, boxVars, waitVars, callVars>>
    /\ UNCHANGED agentVars

TimerNext ==
    \/ TimerExpires
    \/ KeyQuit
    \/ KeyPress

TimerSpec == TimerInit /\ [][TimerNext]_vars

\* C31: in GUI mode at most one act-timer is pending at any time, whatever
\* the timer expiries and key presses, for a plain BaseAgent and for an agent
\* wrapped by AgentWrapper: act is never driven by two timer chains.
C31_OneActTimer == Cardinality(probe.pending) <= 1

====
